---- MODULE Spec2Model ----
(***************************************************************************)
(* A model of anthroscore/get_anthroscore.py.                              *)
(*                                                                         *)
(* The script runs three pieces in sequence: main's argument handling,     *)
(* parse_sentences_from_file (extraction of masked sentences) and          *)
(* get_anthroscore / get_prediction followed by main's log-ratio scoring.  *)
(* Each piece is a specification of its own over the shared variables:     *)
(*   SpecArgs    - main, lines 122-129                                     *)
(*   SpecExtract - parse_sentences_from_file, lines 83-108                 *)
(*   SpecScore   - get_anthroscore, get_prediction, main lines 142-150     *)
(*                                                                         *)
(* Python strings are sequences of one-character strings.  The outputs of  *)
(* the spaCy parser, of the RoBERTa tokenizer and of the RoBERTa model are *)
(* inputs of the model, drawn from bounded sets.                           *)
(***************************************************************************)
EXTENDS Integers, Sequences, FiniteSets, TLC

VARIABLES
    \* ---- main, argument handling
    argv,            \* the command line: which of --input_file, --output_file are given
    input_file,      \* main's local input_file
    output_file,     \* main's local output_file
    apc,             \* position of main: "args", "checked", or the exception raised
    \* ---- parse_sentences_from_file
    entities,        \* the entity list handed to the extractor
    pattern_list,    \* line 85
    text,            \* k[text_column_name] of the input row
    chunks,          \* the parser's noun chunks of the row's sentence, in order
    ci,              \* index of the noun chunk the loop of line 98 is at
    final,           \* line 88: the list of tuples
    persisted,       \* the table written by to_csv, line 107
    stdout,          \* the counts printed by line 108
    epc,             \* position of the extractor
    \* ---- get_anthroscore and main's scoring
    table,           \* the persisted table read back by read_csv (lines 72, 144)
    si,              \* loop index of line 74
    bertscores,      \* get_anthroscore's final (line 73), then main's bertscores
    human_scores,    \* line 146
    nonhuman_scores, \* line 147
    anthroscore,     \* line 148: the column added to df
    spc              \* position of the scorer

argVars == <<argv, input_file, output_file, apc>>
extVars == <<entities, pattern_list, text, chunks, ci, final, persisted, stdout, epc>>
scoVars == <<table, si, bertscores, human_scores, nonhuman_scores, anthroscore, spc>>
vars == <<argVars, extVars, scoVars>>

(***************************************************************************)
(* Bounds of the model.                                                    *)
(***************************************************************************)
MaxSentLen == 3      \* characters in the text of the input row
MaxChunks == 2       \* noun chunks the parser reports for it
MaxEntities == 2     \* entries of the entity list
MaxStemLen == 2      \* characters of a file name before its extension
MaxRows == 2         \* rows of the table the scorer reads
MaxOver == 1         \* tokens by which an encoded sentence may exceed the window

(***************************************************************************)
(* Strings.                                                                *)
(***************************************************************************)
SeqsUpTo(S, n) == UNION {[1..k -> S] : k \in 0..n}

\* Characters of the input texts: two letters and the blank.
TextChars == {"a", "b", " "}

\* Python's \w restricted to the characters that occur in the model.
IsWordChar(c) == c \in {"a", "b", "m", "s", "k"}

IsSpace(c) == c = " "

\* str.lower() on one character.
LowerChar(c) ==
    CASE c = "A" -> "a"
      [] c = "B" -> "b"
      [] OTHER -> c

Lower(s) == [i \in 1..Len(s) |-> LowerChar(s[i])]

\* The placeholder of line 103.
Mask == <<"<", "m", "a", "s", "k", ">">>

IsPrefix(p, s) == Len(p) <= Len(s) /\ SubSeq(s, 1, Len(p)) = p

RECURSIVE StrReplaceFirst(_, _, _)
\* A replace that substitutes the first occurrence only (str.replace(old, new, 1)).
StrReplaceFirst(s, old, new) ==
    IF Len(s) < Len(old) THEN s
    ELSE IF IsPrefix(old, s)
         THEN new \o SubSeq(s, Len(old) + 1, Len(s))
         ELSE <<Head(s)>> \o StrReplaceFirst(Tail(s), old, new)

RECURSIVE StrReplace(_, _, _)
\* Python's s.replace(old, new) for a non-empty old: every non-overlapping
\* occurrence, found scanning left to right, is substituted.
StrReplace(s, old, new) ==
    IF Len(s) < Len(old) THEN s
    ELSE IF IsPrefix(old, s)
         THEN new \o StrReplace(SubSeq(s, Len(old) + 1, Len(s)), old, new)
         ELSE <<Head(s)>> \o StrReplace(Tail(s), old, new)

RECURSIVE LStrip(_, _)
LStrip(s, cs) == IF s # <<>> /\ Head(s) \in cs THEN LStrip(Tail(s), cs) ELSE s

RECURSIVE RStrip(_, _)
RStrip(s, cs) ==
    IF s # <<>> /\ s[Len(s)] \in cs THEN RStrip(SubSeq(s, 1, Len(s) - 1), cs) ELSE s

\* Python's s.strip(chars): leading and trailing characters of the set are removed.
Strip(s, cs) == RStrip(LStrip(s, cs), cs)

\* text.strip() is empty (line 95): strip() with no argument strips white space.
IsBlank(s) == Strip(s, {" "}) = <<>>

(***************************************************************************)
(* Regular expressions of the form \b<literal>\b (line 85, line 101).      *)
(***************************************************************************)
WordBoundary == <<"\\", "b">>

\* line 85: '\\b%s\\b' % s
MakePattern(s) == WordBoundary \o s \o WordBoundary

\* The literal between the two \b of a pattern built by MakePattern.
PatternLiteral(p) == SubSeq(p, 3, Len(p) - 2)

\* \b at gap g of t (between t[g] and t[g+1]; outside the string counts as non-word).
AtBoundary(t, g) ==
    LET before == g >= 1 /\ IsWordChar(t[g])
        after == g < Len(t) /\ IsWordChar(t[g + 1])
    IN before # after

\* re.findall(p, t) is non-empty: the literal occurs in t between two word boundaries.
ReFindall(p, t) ==
    LET lit == PatternLiteral(p)
    IN \E i \in 0..(Len(t) - Len(lit)) :
          /\ SubSeq(t, i + 1, i + Len(lit)) = lit
          /\ AtBoundary(t, i)
          /\ AtBoundary(t, i + Len(lit))

(***************************************************************************)
(* Python values of mixed type: an int or a str.                           *)
(***************************************************************************)
PyInt(n) == [type |-> "int", int |-> n, str |-> ""]
PyStr(s) == [type |-> "str", int |-> 0, str |-> s]

(***************************************************************************)
(* The parser's output (spaCy, line 96).                                   *)
(***************************************************************************)
DepLabels == {"nsubj", "dobj", "pobj"}

Lemmas == {"help"}

\* spaCy's symbol table: Token.dep is the integer id of the label Token.dep_.
DepId(label) ==
    CASE label = "nsubj" -> 429
      [] label = "dobj" -> 416
      [] label = "pobj" -> 439

\* A noun chunk: a span of the sentence that starts and ends on a non-blank
\* character, the dependency label of its root and the lemma of the root's head.
ChunksOf(t) ==
    {[start |-> a, end |-> b, dep_ |-> d, lemma |-> l] :
        a \in {i \in 1..Len(t) : ~IsSpace(t[i])},
        b \in {i \in 1..Len(t) : ~IsSpace(t[i])},
        d \in DepLabels, l \in Lemmas}

\* The noun chunks of a sentence are disjoint and in text order.
ChunkLists(t) ==
    {cs \in SeqsUpTo({c \in ChunksOf(t) : c.start <= c.end}, MaxChunks) :
        \A i \in 1..(Len(cs) - 1) : cs[i].end < cs[i + 1].start}

\* str(_noun_chunk) and _noun_chunk.text
ChunkText(t, c) == SubSeq(t, c.start, c.end)

(***************************************************************************)
(* parse_sentences_from_file                                               *)
(***************************************************************************)
column_names ==
    <<"sentence", "masked_sentence", "text_id", "POS", "verb", "original_term",
      "original_noun">>

\* The entity strings the entity lists are built from.
EntityStrings == {<<"a">>, <<"b">>, <<"a", "b">>}

\* line 94: with no id column the text id is the input file name.
TextId == "input.csv"

\* line 99
Qualifies(c) == c.dep_ = "nsubj" \/ c.dep_ = "dobj"

\* lines 102-104: the tuple appended for noun chunk c and pattern p.
MakeRow(t, c, p) ==
    [sentence |-> t,
     masked_sentence |-> StrReplace(t, ChunkText(t, c), Mask),
     text_id |-> TextId,
     POS |-> PyInt(DepId(c.dep_)),
     verb |-> c.lemma,
     original_term |-> Strip(p, {"\\", "b"}),
     original_noun |-> Lower(ChunkText(t, c))]

RECURSIVE RowsForFirst(_, _, _)
\* The pattern loop leaving at the first pattern that matches.
RowsForFirst(t, c, ps) ==
    IF ps = <<>> THEN <<>>
    ELSE IF ReFindall(Head(ps), Lower(ChunkText(t, c)))
         THEN <<MakeRow(t, c, Head(ps))>>
         ELSE RowsForFirst(t, c, Tail(ps))

RECURSIVE RowsFor(_, _, _)
\* lines 100-104: the loop over pattern_list for one noun chunk; every pattern
\* that matches appends a tuple.
RowsFor(t, c, ps) ==
    IF ps = <<>> THEN <<>>
    ELSE (IF ReFindall(Head(ps), Lower(ChunkText(t, c)))
          THEN <<MakeRow(t, c, Head(ps))>>
          ELSE <<>>) \o RowsFor(t, c, Tail(ps))

\* pd.DataFrame(final): a list of 7-tuples gives 7 columns, the empty list none.
FrameWidth(rows) == IF rows = <<>> THEN 0 ELSE Len(column_names)

(***************************************************************************)
(* main: the command line and the extension checks (lines 113-129).        *)
(***************************************************************************)
\* An optional str: None, or a string.
PyNone == [none |-> TRUE, str |-> <<>>]
PyS(s) == [none |-> FALSE, str |-> s]

\* A command-line option: absent, or given with a value.
NotGiven == [given |-> FALSE, str |-> <<>>]
Given(s) == [given |-> TRUE, str |-> s]

CsvExt == <<".", "c", "s", "v">>
TxtExt == <<".", "t", "x", "t">>
ParsedSuffix == <<"_", "p", "a", "r", "s", "e", "d">> \o CsvExt

FileNames ==
    {stem \o ext : stem \in SeqsUpTo({"a", "."}, MaxStemLen), ext \in {<<>>, CsvExt, TxtExt}}

\* s[-4:]
Last4(s) == IF Len(s) <= 4 THEN s ELSE SubSeq(s, Len(s) - 3, Len(s))

RECURSIVE UpToFirstDot(_)
\* s.split('.')[0]
UpToFirstDot(s) ==
    IF s = <<>> \/ Head(s) = "." THEN <<>> ELSE <<Head(s)>> \o UpToFirstDot(Tail(s))

\* line 113: --input_file has no default, so an absent option is None.
InputDefault == PyNone

\* line 118: default=''
OutputDefault == PyS(<<>>)

\* argparse: the option's value, or the default.
ArgValue(opt, default) == IF opt.given THEN PyS(opt.str) ELSE default

\* lines 126-127: the output path main goes on with.
ResolveOutput(inp, out) ==
    IF out.none THEN PyS(UpToFirstDot(inp.str) \o ParsedSuffix) ELSE out

\* lines 126-129: what main raises, or "extract" when it goes on to line 131.
CheckOutcome(inp, out) ==
    IF inp.none
    THEN (IF out.none THEN "AttributeError" ELSE "TypeError")
    ELSE IF Last4(inp.str) # CsvExt THEN "AssertionError"
    ELSE IF Last4(ResolveOutput(inp, out).str) # CsvExt THEN "AssertionError"
    ELSE "extract"

NoFile == [written |-> FALSE, columns |-> <<>>, rows |-> <<>>]

ArgIdle ==
    /\ argv = [input_file |-> NotGiven, output_file |-> NotGiven]
    /\ input_file = PyNone
    /\ output_file = PyNone
    /\ apc = "idle"

ExtIdle ==
    /\ entities = <<>>
    /\ pattern_list = <<>>
    /\ text = <<>>
    /\ chunks = <<>>
    /\ ci = 0
    /\ final = <<>>
    /\ persisted = NoFile
    /\ stdout = <<>>
    /\ epc = "idle"

ScoIdle ==
    /\ table = <<>>
    /\ si = 0
    /\ bertscores = <<>>
    /\ human_scores = <<>>
    /\ nonhuman_scores = <<>>
    /\ anthroscore = <<>>
    /\ spc = "idle"

InitExtract ==
    /\ entities \in SeqsUpTo(EntityStrings, MaxEntities)
    /\ text \in SeqsUpTo(TextChars, MaxSentLen)
    /\ chunks \in ChunkLists(text)
    /\ pattern_list = <<>>
    /\ ci = 0
    /\ final = <<>>
    /\ persisted = NoFile
    /\ stdout = <<>>
    /\ epc = "start"
    /\ ArgIdle
    /\ ScoIdle

\* lines 84-88
BuildPatterns ==
    /\ epc = "start"
    /\ pattern_list' = [j \in 1..Len(entities) |-> MakePattern(entities[j])]
    /\ final' = <<>>
    /\ epc' = "row"
    /\ UNCHANGED <<entities, text, chunks, ci, persisted, stdout>>
    /\ UNCHANGED <<argVars, scoVars>>

\* line 95, false: a blank text is skipped
SkipBlankRow ==
    /\ epc = "row"
    /\ IsBlank(text)
    /\ epc' = "frame"
    /\ UNCHANGED <<entities, pattern_list, text, chunks, ci, final, persisted, stdout>>
    /\ UNCHANGED <<argVars, scoVars>>

\* lines 95-98: the text is parsed and the loop over its noun chunks starts
ParseRow ==
    /\ epc = "row"
    /\ ~IsBlank(text)
    /\ ci' = 1
    /\ epc' = "chunks"
    /\ UNCHANGED <<entities, pattern_list, text, chunks, final, persisted, stdout>>
    /\ UNCHANGED <<argVars, scoVars>>

\* line 99, false: the chunk is neither subject nor direct object
SkipChunk ==
    /\ epc = "chunks"
    /\ ci <= Len(chunks)
    /\ ~Qualifies(chunks[ci])
    /\ ci' = ci + 1
    /\ UNCHANGED <<entities, pattern_list, text, chunks, final, persisted, stdout, epc>>
    /\ UNCHANGED <<argVars, scoVars>>

\* lines 99-104: the chunk is tested against every pattern
MatchChunk ==
    /\ epc = "chunks"
    /\ ci <= Len(chunks)
    /\ Qualifies(chunks[ci])
    /\ final' = final \o RowsFor(text, chunks[ci], pattern_list)
    /\ ci' = ci + 1
    /\ UNCHANGED <<entities, pattern_list, text, chunks, persisted, stdout, epc>>
    /\ UNCHANGED <<argVars, scoVars>>

\* the loops of lines 89-98 are exhausted
EndRows ==
    /\ epc = "chunks"
    /\ ci > Len(chunks)
    /\ epc' = "frame"
    /\ UNCHANGED <<entities, pattern_list, text, chunks, ci, final, persisted, stdout>>
    /\ UNCHANGED <<argVars, scoVars>>

\* lines 105-108 when the frame has as many columns as column_names
Persist ==
    /\ epc = "frame"
    /\ FrameWidth(final) = Len(column_names)
    /\ persisted' = [written |-> TRUE, columns |-> column_names, rows |-> final]
    /\ stdout' = Append(stdout, Len(final))
    /\ epc' = "done"
    /\ UNCHANGED <<entities, pattern_list, text, chunks, ci, final>>
    /\ UNCHANGED <<argVars, scoVars>>

\* line 106 raises "Length mismatch" when it does not
ColumnsRaise ==
    /\ epc = "frame"
    /\ FrameWidth(final) # Len(column_names)
    /\ epc' = "ValueError"
    /\ UNCHANGED <<entities, pattern_list, text, chunks, ci, final, persisted, stdout>>
    /\ UNCHANGED <<argVars, scoVars>>

NextExtract ==
    \/ BuildPatterns
    \/ SkipBlankRow
    \/ ParseRow
    \/ SkipChunk
    \/ MatchChunk
    \/ EndRows
    \/ Persist
    \/ ColumnsRaise

SpecExtract == InitExtract /\ [][NextExtract]_vars

(***************************************************************************)
(* Properties of parse_sentences_from_file, checked under SpecExtract.     *)
(***************************************************************************)
RECURSIVE CountOcc(_, _)
\* The number of non-overlapping occurrences of the non-empty t in s, left to right.
CountOcc(s, t) ==
    IF Len(s) < Len(t) THEN 0
    ELSE IF IsPrefix(t, s)
         THEN 1 + CountOcc(SubSeq(s, Len(t) + 1, Len(s)), t)
         ELSE CountOcc(Tail(s), t)

RECURSIVE Unmask(_, _)
\* m with every placeholder expanded to t.
Unmask(m, t) ==
    IF m = <<>> THEN <<>>
    ELSE IF IsPrefix(Mask, m)
         THEN t \o Unmask(SubSeq(m, Len(Mask) + 1, Len(m)), t)
         ELSE <<Head(m)>> \o Unmask(Tail(m), t)

\* The noun chunks the loop of line 98 has gone through.
Processed == IF epc = "chunks" THEN ci - 1 ELSE IF epc \in {"frame", "done", "ValueError"} THEN Len(chunks) ELSE 0

\* Entity j's pattern matches noun chunk c (line 101).
EntityMatches(c, j) ==
    ReFindall(MakePattern(entities[j]), Lower(ChunkText(text, chunks[c])))

MatchingPairs ==
    {pr \in (1..Processed) \X (1..Len(entities)) :
        Qualifies(chunks[pr[1]]) /\ EntityMatches(pr[1], pr[2])}

MatchedChunks ==
    {c \in 1..Processed :
        Qualifies(chunks[c]) /\ \E j \in 1..Len(entities) : EntityMatches(c, j)}

\* The texts of the noun chunks that lower-case to the row's original_noun.
NounTexts(r) ==
    {ChunkText(text, chunks[c]) : c \in {d \in 1..Len(chunks) :
        Lower(ChunkText(text, chunks[d])) = r.original_noun}}

\* C2 (as amended): a qualifying noun phrase yields one row for every entry of
\* the entity list whose pattern matches it, so the number of rows is the number
\* of (qualifying noun phrase, matching entry) pairs; and whenever the count is
\* printed, it is the row count of the table that was persisted.
C2_RowPerMatchingEntry ==
    /\ Len(final) = Cardinality(MatchingPairs)
    /\ stdout # <<>> => epc = "done"
    /\ epc = "done" => /\ persisted.written
                       /\ persisted.rows = final
                       /\ stdout = <<Len(persisted.rows)>>

\* C2 (as claimed): exactly one row per qualifying noun phrase that matches the
\* entity list, also when several entities match the same noun phrase.
C2_OneRowPerNounPhrase == Len(final) = Cardinality(MatchedChunks)

C2_Witness ==
    /\ epc = "done"
    /\ \E c \in 1..Len(chunks) :
          Cardinality({pr \in MatchingPairs : pr[1] = c}) >= 2
    /\ Len(final) >= 2

\* C3 (as amended): masked_sentence is the sentence with every non-overlapping
\* occurrence of the noun-phrase text (scanning left to right) replaced by the
\* placeholder: it holds as many placeholders as the text has occurrences, each
\* standing for one occurrence, and expanding them gives the sentence back.
C3_EveryOccurrenceMasked ==
    \A i \in 1..Len(final) :
        LET r == final[i]
        IN \E t \in NounTexts(r) :
              /\ CountOcc(r.masked_sentence, Mask) = CountOcc(r.sentence, t)
              /\ Len(r.masked_sentence)
                    = Len(r.sentence) + CountOcc(r.sentence, t) * (Len(Mask) - Len(t))
              /\ Unmask(r.masked_sentence, t) = r.sentence

\* C3 (as claimed): only the first occurrence is replaced, later ones are left
\* unchanged, and the masked sentence holds exactly one placeholder.
C3_FirstOccurrenceOnly ==
    \A i \in 1..Len(final) :
        LET r == final[i]
        IN \E t \in NounTexts(r) :
              /\ r.masked_sentence = StrReplaceFirst(r.sentence, t, Mask)
              /\ CountOcc(r.masked_sentence, Mask) = 1

C3_Witness ==
    \E i \in 1..Len(final) :
        \E t \in NounTexts(final[i]) :
            /\ CountOcc(final[i].sentence, t) >= 2
            /\ CountOcc(final[i].masked_sentence, Mask) >= 2

\* C5 (as claimed): original_term of every row is an entity of the entity list,
\* as supplied, whose pattern matches the row's noun phrase.
C5_OriginalTermIsEntity ==
    \A i \in 1..Len(final) :
        \E j \in 1..Len(entities) :
            /\ entities[j] = final[i].original_term
            /\ ReFindall(MakePattern(entities[j]), final[i].original_noun)

\* C6 (as claimed): POS of every row is the string "nsubj" or the string "dobj".
C6_PosIsRoleLabel ==
    \A i \in 1..Len(final) :
        /\ final[i].POS.type = "str"
        /\ final[i].POS.str \in {"nsubj", "dobj"}

\* C9 (as claimed): when nothing matches, the extractor completes, persists an
\* empty table with the seven columns and prints a count of 0.
C9_NoMatchCompletes ==
    (epc \in {"done", "ValueError"} /\ final = <<>>)
        => /\ epc = "done"
           /\ persisted.written
           /\ persisted.columns = column_names
           /\ persisted.rows = <<>>
           /\ stdout = <<0>>

InitArgs ==
    /\ argv \in [input_file : {NotGiven} \cup {Given(f) : f \in FileNames},
                 output_file : {NotGiven} \cup {Given(f) : f \in FileNames}]
    /\ input_file = PyNone
    /\ output_file = PyNone
    /\ apc = "parse_args"
    /\ ExtIdle
    /\ ScoIdle

\* lines 122-125
ParseArgs ==
    /\ apc = "parse_args"
    /\ input_file' = ArgValue(argv.input_file, InputDefault)
    /\ output_file' = ArgValue(argv.output_file, OutputDefault)
    /\ apc' = "check"
    /\ UNCHANGED <<argv, extVars, scoVars>>

\* lines 126-129
CheckFiles ==
    /\ apc = "check"
    /\ apc' = CheckOutcome(input_file, output_file)
    /\ output_file' = IF input_file.none THEN output_file
                      ELSE ResolveOutput(input_file, output_file)
    /\ UNCHANGED <<argv, input_file, extVars, scoVars>>

NextArgs ==
    \/ ParseArgs
    \/ CheckFiles

SpecArgs == InitArgs /\ [][NextArgs]_vars

\* C8 (as claimed): with --output_file omitted and an input file ending in
\* ".csv", main passes its extension checks, with the output path defaulted to
\* the input name up to its first dot followed by "_parsed.csv".
C8_OutputOptional ==
    (/\ apc \notin {"parse_args", "check"}
     /\ ~argv.output_file.given
     /\ argv.input_file.given
     /\ Last4(argv.input_file.str) = CsvExt)
        => /\ apc = "extract"
           /\ output_file = PyS(UpToFirstDot(argv.input_file.str) \o ParsedSuffix)

(***************************************************************************)
(* get_prediction (lines 40-68).                                           *)
(*                                                                         *)
(* An encoded sentence is the length of its token sequence and the         *)
(* positions (from 0) of its mask tokens, in order.  A probability vector  *)
(* is a sequence of integers, one per term, in units of probability mass.  *)
(***************************************************************************)
\* lines 41 and 71
terms ==
    <<"you", "we", "us", "he", "she", "her", "him", "You", "We", "Us", "He", "She",
      "Her", "I", "i", "it", "its", "It", "Its">>

\* lines 52 and 54: the width of the re-sliced window and half of it
Window == 512
Half == 256

\* roberta-base (line 34) has position embeddings for 512 tokens
ModelMaxLen == 512

\* Python's t[a:b] on an encoded sentence; a negative index counts from the end.
PySlice(tok, a, b) ==
    LET norm(x) == IF x < 0 THEN (IF x + tok.len < 0 THEN 0 ELSE x + tok.len)
                   ELSE IF x > tok.len THEN tok.len ELSE x
        lo == norm(a)
        hi == norm(b)
        kept == SelectSeq(tok.masks, LAMBDA m : lo <= m /\ m < hi)
    IN [len |-> IF hi > lo THEN hi - lo ELSE 0,
        masks |-> [k \in 1..Len(kept) |-> kept[k] - lo]]

Returned(v) == [kind |-> "return", value |-> v, exc |-> ""]
Raised(e) == [kind |-> "raise", value |-> <<>>, exc |-> e]

\* lines 60-68: the model is run on token_ids and the probabilities of the terms
\* at the mask are returned; a sequence longer than the model's position table
\* makes the embedding lookup raise.
RunModel(token_ids, probs) ==
    IF token_ids.len > ModelMaxLen THEN Raised("IndexError") ELSE Returned(probs)

\* lines 48-58: the handler of the first IndexError.  empty is the content of
\* the uninitialised np.empty((len(terms),)).
Recenter(temp, probs, empty) ==
    IF temp.masks = <<>>
    THEN Returned(empty)                                    \* line 51 raises, line 56
    ELSE LET mp == temp.masks[1]
             sl == IF mp + Half > temp.len
                   THEN PySlice(temp, 0 - Window, temp.len)   \* line 52
                   ELSE PySlice(temp, mp - Half, mp + Half)   \* line 54
         IN IF sl.len # Window THEN Raised("RuntimeError")    \* reshape to (1, 512)
            ELSE IF sl.masks = <<>> THEN Raised("IndexError") \* line 58
            ELSE RunModel(sl, probs)

\* get_prediction(sent), for a sentence with encoding tok on which the model
\* yields probs.
GetPrediction(tok, probs, empty) ==
    IF tok.masks # <<>>                       \* line 46 finds the mask
    THEN RunModel(tok, probs)
    ELSE Recenter(tok, probs, empty)

(***************************************************************************)
(* get_anthroscore (lines 70-81) and main's scoring (lines 142-150).       *)
(***************************************************************************)
\* A vector that is 0 but for the given slots (numbered from 1).
Vec(f) == [k \in 1..Len(terms) |-> IF k \in DOMAIN f THEN f[k] ELSE 0]

\* Outputs of the model: more human mass, more non-human mass, equal masses,
\* and no human mass at all.
ModelOutputs ==
    {Vec([k \in {15, 19} |-> IF k = 15 THEN 2 ELSE 1]),
     Vec([k \in {15, 16, 19} |-> IF k = 19 THEN 2 ELSE 1]),
     Vec([k \in {1, 16} |-> 1]),
     Vec([k \in {18} |-> 1])}

\* Contents an uninitialised array may have.
Garbage ==
    {Vec([k \in {} |-> 0]),
     Vec([k \in {1, 16} |-> IF k = 1 THEN 0 - 1 ELSE 1]),
     Vec([k \in {14, 17} |-> IF k = 14 THEN 2 ELSE 1])}

TokenLens == {3} \cup Window..(Window + MaxOver)

\* No mask, a mask right after the start token, or a mask far from the start.
Encodings ==
    {x \in {[len |-> n, masks |-> m] :
                n \in TokenLens, m \in {<<>>, <<1>>, <<Half + 1>>}} :
        \A k \in 1..Len(x.masks) : x.masks[k] < x.len - 1}

\* A row of the table: the encoding of its masked sentence and what the model
\* yields at its mask (nothing when the sentence has no mask).
TableRows ==
    {[tokens |-> e, probs |-> v] :
        e \in {x \in Encodings : x.masks # <<>>}, v \in ModelOutputs}
    \cup {[tokens |-> e, probs |-> <<>>] : e \in {x \in Encodings : x.masks = <<>>}}

RECURSIVE SumSlots(_, _, _)
\* np.sum of the slots a..b (from 1) of a vector
SumSlots(v, a, b) == IF a > b THEN 0 ELSE v[a] + SumSlots(v, a + 1, b)

\* line 146: the columns [:15]
HumanCols == 15

\* A float: finite (in thousandths), an infinity or nan.
Fin(x) == [k |-> "fin", v |-> x]
NegInf == [k |-> "-inf", v |-> 0]
PosInf == [k |-> "+inf", v |-> 0]
NaN == [k |-> "nan", v |-> 0]

\* np.log, in thousandths for the masses that occur
NpLog(x) ==
    IF x < 0 THEN NaN
    ELSE IF x = 0 THEN NegInf
    ELSE CASE x = 1 -> Fin(0)
           [] x = 2 -> Fin(693)
           [] x = 3 -> Fin(1099)
           [] x = 4 -> Fin(1386)
           [] x = 5 -> Fin(1609)
           [] x = 6 -> Fin(1792)

\* a - b on floats
FloatSub(a, b) ==
    IF a.k = "nan" \/ b.k = "nan" THEN NaN
    ELSE IF a.k = "fin" /\ b.k = "fin" THEN Fin(a.v - b.v)
    ELSE IF a.k = b.k THEN NaN
    ELSE IF a.k = "+inf" \/ b.k = "-inf" THEN PosInf
    ELSE NegInf

\* The subtraction taken the other way round.
LogRatioSwapped(h, n) == FloatSub(NpLog(n), NpLog(h))

\* line 148
LogRatio(h, n) == FloatSub(NpLog(h), NpLog(n))

\* A slice that keeps the placeholder row.
KeepAllRows(b) == b

\* lines 146-147: bertscores[1:, ...] leaves out row 0
DropFirstRow(b) == Tail(b)

\* The human columns taken one short.
HumanSumShort(v) == SumSlots(v, 1, HumanCols - 1)

\* line 146: np.sum(bertscores[1:, :15], axis=1), for one row
HumanSum(v) == SumSlots(v, 1, HumanCols)

\* line 147: np.sum(bertscores[1:, 15:], axis=1), for one row
NonHumanSum(v) == SumSlots(v, HumanCols + 1, Len(v))

InitScore ==
    /\ table \in SeqsUpTo(TableRows, MaxRows)
    /\ si = 0
    /\ bertscores = <<>>
    /\ human_scores = <<>>
    /\ nonhuman_scores = <<>>
    /\ anthroscore = <<>>
    /\ spc = "start"
    /\ ArgIdle
    /\ ExtIdle

\* lines 72-73: the table is read and final starts as one uninitialised row
ReadTable ==
    /\ spc = "start"
    /\ \E g \in Garbage : bertscores' = <<g>>
    /\ si' = 1
    /\ spc' = "loop"
    /\ UNCHANGED <<table, human_scores, nonhuman_scores, anthroscore>>
    /\ UNCHANGED <<argVars, extVars>>

\* lines 74-80: get_prediction returns and its vector is stacked under final
ScoreRow ==
    /\ spc = "loop"
    /\ si <= Len(table)
    /\ \E g \in Garbage :
          LET res == GetPrediction(table[si].tokens, table[si].probs, g)
          IN /\ res.kind = "return"
             /\ bertscores' = Append(bertscores, res.value)
    /\ si' = si + 1
    /\ UNCHANGED <<table, human_scores, nonhuman_scores, anthroscore, spc>>
    /\ UNCHANGED <<argVars, extVars>>

\* line 79: get_prediction raises, and nothing catches it
PredictionRaises ==
    /\ spc = "loop"
    /\ si <= Len(table)
    /\ \E g \in Garbage :
          LET res == GetPrediction(table[si].tokens, table[si].probs, g)
          IN /\ res.kind = "raise"
             /\ spc' = res.exc
    /\ UNCHANGED <<table, si, bertscores, human_scores, nonhuman_scores, anthroscore>>
    /\ UNCHANGED <<argVars, extVars>>

\* lines 81 and 142
ReturnScores ==
    /\ spc = "loop"
    /\ si > Len(table)
    /\ spc' = "returned"
    /\ UNCHANGED <<table, si, bertscores, human_scores, nonhuman_scores, anthroscore>>
    /\ UNCHANGED <<argVars, extVars>>

\* lines 144-150
MainScore ==
    /\ spc = "returned"
    /\ LET rows == DropFirstRow(bertscores)
       IN /\ human_scores' = [i \in 1..Len(rows) |-> HumanSum(rows[i])]
          /\ nonhuman_scores' = [i \in 1..Len(rows) |-> NonHumanSum(rows[i])]
          /\ anthroscore' =
                [i \in 1..Len(rows) |-> LogRatio(HumanSum(rows[i]), NonHumanSum(rows[i]))]
    /\ spc' = "scored"
    /\ UNCHANGED <<table, si, bertscores>>
    /\ UNCHANGED <<argVars, extVars>>

NextScore ==
    \/ ReadTable
    \/ ScoreRow
    \/ PredictionRaises
    \/ ReturnScores
    \/ MainScore

SpecScore == InitScore /\ [][NextScore]_vars

(***************************************************************************)
(* Properties of the scorer, checked under SpecScore.                      *)
(***************************************************************************)
HumanPronouns ==
    {"you", "we", "us", "he", "she", "her", "him", "You", "We", "Us", "He", "She",
     "Her", "I", "i"}

NonHumanPronouns == {"it", "its", "It", "Its"}

HumanSlots == {k \in 1..Len(terms) : terms[k] \in HumanPronouns}
NonHumanSlots == {k \in 1..Len(terms) : terms[k] \in NonHumanPronouns}

RECURSIVE MassOf(_, _)
\* The mass a vector gives to a set of slots.
MassOf(v, S) ==
    IF S = {} THEN 0
    ELSE LET k == CHOOSE x \in S : TRUE IN v[k] + MassOf(v, S \ {k})

Resolved(i) == table[i].tokens.masks # <<>>

\* C1 (as amended): the vocabulary has exactly 19 ordered terms, the first 15
\* (indices 0-14) human-referring and the remaining 4 (indices 15-18: it, its,
\* It, Its) non-human-referring; every vector has one slot per term, and for
\* every scored sentence the human mass is the sum over exactly the first 15
\* slots and the non-human mass the sum over exactly the remaining 4.
C1_NineteenTermsFifteenHuman ==
    /\ Len(terms) = 19
    /\ HumanSlots = 1..15
    /\ NonHumanSlots = 16..19
    /\ \A i \in 1..Len(bertscores) : Len(bertscores[i]) = Len(terms)
    /\ spc = "scored" =>
          /\ Len(human_scores) = Len(table)
          /\ Len(nonhuman_scores) = Len(table)
          /\ \A i \in 1..Len(table) :
                /\ human_scores[i] = MassOf(bertscores[i + 1], HumanSlots)
                /\ nonhuman_scores[i] = MassOf(bertscores[i + 1], NonHumanSlots)

\* C1 (as claimed): every vector has 18 slots, and the non-human mass of a
\* scored sentence is the sum over exactly the 3 slots after the first 15.
C1_EighteenTermsThreeNonHuman ==
    spc = "scored" =>
        \A i \in 1..Len(table) :
            /\ Len(bertscores[i + 1]) = 18
            /\ human_scores[i] = MassOf(bertscores[i + 1], 1..15)
            /\ nonhuman_scores[i] = MassOf(bertscores[i + 1], 16..18)

C1_Witness ==
    /\ spc = "scored"
    /\ \E i \in 1..Len(table) :
          /\ Resolved(i)
          /\ bertscores[i + 1][15] > 0
          /\ bertscores[i + 1][19] > 0
          /\ human_scores[i] > 0
          /\ nonhuman_scores[i] > bertscores[i + 1][19]

\* C4 (as claimed): get_prediction never raises, whatever the token length of
\* the masked sentence and the position of its mask.
C4_PredictionNeverRaises == spc \notin {"IndexError", "RuntimeError"}

\* C7: for a scored sentence with human mass h > 0 and non-human mass n > 0 the
\* AnthroScore is finite, positive exactly when h > n, negative exactly when
\* h < n and zero exactly when h = n.
C7_SignOfScore ==
    spc = "scored" =>
        \A i \in 1..Len(anthroscore) :
            (human_scores[i] > 0 /\ nonhuman_scores[i] > 0) =>
                /\ anthroscore[i].k = "fin"
                /\ anthroscore[i].v > 0 <=> human_scores[i] > nonhuman_scores[i]
                /\ anthroscore[i].v < 0 <=> human_scores[i] < nonhuman_scores[i]
                /\ anthroscore[i].v = 0 <=> human_scores[i] = nonhuman_scores[i]

C7_Witness ==
    /\ spc = "scored"
    /\ \E i, j \in 1..Len(anthroscore) :
          /\ human_scores[i] > nonhuman_scores[i] /\ nonhuman_scores[i] > 0
          /\ anthroscore[i].v > 0
          /\ human_scores[j] > 0 /\ human_scores[j] < nonhuman_scores[j]
          /\ anthroscore[j].v < 0

\* C10: when the scoring loop has run over a table of N rows, the array it
\* returns has N + 1 rows: row 0 is the uninitialised placeholder and row i + 1
\* is what get_prediction gave for masked sentence i (the model's vector, or an
\* uninitialised vector when the mask is not found), in table order.  main
\* drops exactly row 0: there are N scores, and the score of table row i is
\* the log ratio of the masses of that row's own vector.
C10_ScoresAlignedWithRows ==
    /\ spc \in {"returned", "scored"} =>
          /\ Len(bertscores) = Len(table) + 1
          /\ bertscores[1] \in Garbage
          /\ \A i \in 1..Len(table) :
                IF Resolved(i) THEN bertscores[i + 1] = table[i].probs
                ELSE bertscores[i + 1] \in Garbage
    /\ spc = "scored" =>
          /\ Len(anthroscore) = Len(table)
          /\ \A i \in 1..Len(table) :
                Resolved(i) =>
                    anthroscore[i] =
                        FloatSub(NpLog(MassOf(table[i].probs, HumanSlots)),
                                 NpLog(MassOf(table[i].probs, NonHumanSlots)))

C10_Witness ==
    /\ spc = "scored"
    /\ Len(table) = 2
    /\ ~Resolved(1)
    /\ Resolved(2)
    /\ bertscores[1] # bertscores[2]
    /\ bertscores[2] # bertscores[3]
    /\ anthroscore[2].k = "fin"

====
